---- MODULE Spec2Model ----
(***************************************************************************)
(* Model of convert.py: DOCX -> PDF -> (outline merge) -> PDF/A pipeline.   *)
(*                                                                         *)
(* Four specifications share the module:                                   *)
(*   SpecMerge  add_outlines_to_pdf, one step per outline item             *)
(*   SpecHost   export_docx_to_pdf / extract_outline_items, one step per   *)
(*              statement that talks to the automation host                *)
(*   SpecNorm   convert_pdf_to_pdfa on arbitrary files                     *)
(*   SpecMain   main, one step per pipeline stage                          *)
(***************************************************************************)
EXTENDS Integers, Sequences, FiniteSets, TLC

VARIABLES
    \* ---- add_outlines_to_pdf
    outlines,      \* the `outlines` argument: sequence of [title, level, page]
    pageCount,     \* len(reader.pages)
    mi,            \* number of items of `outlines` already processed
    parents,       \* the `parents` dict: level -> node id (None = 0)
    nodes,         \* bookmarks created by writer.add_outline_item, in order
    \* ---- export_docx_to_pdf / extract_outline_items
    fn,            \* which of the two functions is running
    hpc,           \* the statement about to run
    pidx,          \* paragraphs already visited by the for loop
    calls,         \* calls made on the automation host so far, in order
    hostAcquired,  \* Dispatch returned a host
    docOpened,     \* Documents.Open returned a document
    pending,       \* an exception is propagating through the finally blocks
    hres,          \* "running", "returned" or "raised"
    \* ---- the DOCX and what the Extractor made of it
    paras,         \* doc.Paragraphs: sequence of [text, level, page]
    items,         \* the `items` list / main's outline_items
    \* ---- the file system and convert_pdf_to_pdfa
    fs,            \* path -> file content, or NoFile
    nIn,           \* pdf_path of the latest convert_pdf_to_pdfa call
    nOut,          \* pdfa_path of the latest call
    nBefore,       \* content of nIn when the call started
    nres,          \* "idle", "returned" or "raised"
    nroute,        \* "none", "normal" (pikepdf saved) or "fallback" (copy2)
    nruns,         \* calls made so far
    \* ---- main
    pc,            \* the stage main is about to run
    args,          \* parsed command line
    gsOnPath,      \* shutil.which finds gswin64c or gswin32c
    wordBookmarks, \* named bookmarks in the DOCX
    pdf_path,
    outlined_pdf_path,
    pdf_for_pdfa,
    stagesRun,     \* stages that have run, in order
    rendered,      \* content the Renderer wrote to pdf_path
    failedAt       \* the stage whose exception ended the run, or "none"

mergeVars == <<outlines, pageCount, mi, parents, nodes>>
hostVars == <<fn, hpc, pidx, calls, hostAcquired, docOpened, pending, hres>>
docVars == <<paras, items>>
fileVars == <<fs, nIn, nOut, nBefore, nres, nroute, nruns>>
mainVars == <<pc, args, gsOnPath, wordBookmarks, pdf_path, outlined_pdf_path,
              pdf_for_pdfa, stagesRun, rendered, failedAt>>

vars == <<mergeVars, hostVars, docVars, fileVars, mainVars>>

(***************************************************************************)
(* Bounds of the model.                                                    *)
(***************************************************************************)
MaxItems == 3
MaxLevel == 3
MaxPage == 2
MaxPageCount == 2
MaxParas == 2
MaxIntents == 2
MaxRuns == 2

(***************************************************************************)
(* Program constants.                                                      *)
(***************************************************************************)
WD_CREATE_BOOKMARKS_FROM_HEADINGS == 1
WD_CREATE_BOOKMARKS_FROM_WORD == 2
MaxOutlineLevel == 9

None == 0
NoFile == [kind |-> "absent"]

Max(a, b) == IF a >= b THEN a ELSE b
Min(a, b) == IF a <= b THEN a ELSE b
SeqsUpTo(S, n) == UNION {[1..k -> S] : k \in 0..n}

\* texts are sequences of characters
Whitespace == {" ", "\r"}

(***************************************************************************)
(* add_outlines_to_pdf                                                     *)
(***************************************************************************)
Titles == {<<"a">>}
OutlineItems == [title : Titles, level : 1..MaxLevel, page : 0..MaxPage]

\* max_page_index = max(0, len(reader.pages) - 1)
MaxPageIndex(nPages) == Max(0, nPages - 1)

\* page_index = max(page - 1, 0), the upper clamp left out
ClampPageNoUpper(page, maxIdx) == Max(page - 1, 0)

\* page_index = min(max(page - 1, 0), max_page_index)
ClampPage(page, maxIdx) == Min(Max(page - 1, 0), maxIdx)

\* parents.get(level), an off-by-one lookup
ParentLookupSameLevel(par, level) ==
    IF level \in DOMAIN par THEN par[level] ELSE None

\* parent = parents.get(level - 1)
ParentLookup(par, level) ==
    IF (level - 1) \in DOMAIN par THEN par[level - 1] ELSE None

\* parents[level] = item
Record(par, level, id) ==
    [k \in (DOMAIN par) \cup {level} |-> IF k = level THEN id ELSE par[k]]

\* the deletion loop left out
InvalidateNothing(par, level) == par

\* for deeper in [k for k in parents.keys() if k > level]: del parents[deeper]
Invalidate(par, level) ==
    [k \in {j \in DOMAIN par : j <= level} |-> par[k]]

\* parents = {0: None}; no outline item added yet
MergeStart == [parents |-> (0 :> None), nodes |-> <<>>]

\* the body of `for title, level, page in outlines`
MergeStep(st, it, nPages) ==
    LET page_index == ClampPage(it.page, MaxPageIndex(nPages))
        parent == ParentLookup(st.parents, it.level)
        id == Len(st.nodes) + 1
    IN [parents |-> Invalidate(Record(st.parents, it.level, id), it.level),
        nodes |-> Append(st.nodes, [title |-> it.title,
                                    page_index |-> page_index,
                                    parent |-> parent,
                                    level |-> it.level])]

\* the whole loop
RECURSIVE MergeAll(_, _, _)
MergeAll(st, its, nPages) ==
    IF its = <<>> THEN st
    ELSE MergeAll(MergeStep(st, Head(its), nPages), Tail(its), nPages)

(***************************************************************************)
(* extract_outline_items                                                   *)
(***************************************************************************)
Texts == {<<>>, <<" ">>, <<"a">>, <<" ", "a", "\r">>}
LevelValues == {0, 1, MaxOutlineLevel, MaxOutlineLevel + 1}
PageValues == {0, 1}
Paragraphs == [text : Texts, level : LevelValues, page : PageValues]

RECURSIVE LStrip(_)
LStrip(s) ==
    IF s # <<>> /\ Head(s) \in Whitespace THEN LStrip(Tail(s)) ELSE s

RECURSIVE RStrip(_)
RStrip(s) ==
    IF s # <<>> /\ s[Len(s)] \in Whitespace
    THEN RStrip(SubSeq(s, 1, Len(s) - 1))
    ELSE s

\* str.strip()
Strip(s) == RStrip(LStrip(s))

\* the page test taken as `page < 0`
SkipsAllowingPageZero(para) ==
    \/ Strip(para.text) = <<>>
    \/ para.level <= 0 \/ para.level > MaxOutlineLevel
    \/ para.page < 0

\* the three `continue` tests of the paragraph loop
Skips(para) ==
    \/ Strip(para.text) = <<>>
    \/ para.level <= 0 \/ para.level > MaxOutlineLevel
    \/ para.page <= 0

\* items.append((text, level, page)) unless the paragraph is skipped
VisitParagraph(its, para) ==
    IF Skips(para)
    THEN its
    ELSE Append(its, [title |-> Strip(para.text), level |-> para.level,
                      page |-> para.page])

\* the whole paragraph loop
RECURSIVE WalkAll(_, _)
WalkAll(its, ps) ==
    IF ps = <<>> THEN its ELSE WalkAll(VisitParagraph(its, Head(ps)), Tail(ps))

(***************************************************************************)
(* Files                                                                   *)
(***************************************************************************)
\* paths are named by their stem; with_stem(stem + suffix) appends to it
WithStem(p, suffix) == p \o suffix

PDFA_PATH == "out"
AllPaths == {"out", "out_temp", "out_temp_outlines",
             "mid", "mid_outlines", "out_outlines"}

XmpValues == {"none", "pdfa1", "pdfa2b"}

Pdf(nPages, nBookmarks, nIntents, xmp, by) ==
    [kind |-> "pdf", pages |-> nPages, bookmarks |-> nBookmarks,
     intents |-> nIntents, xmp |-> xmp, writtenBy |-> by]

EmptyDisk == [p \in AllPaths |-> NoFile]

(***************************************************************************)
(* convert_pdf_to_pdfa                                                     *)
(***************************************************************************)
\* an output intent appended whether or not the catalog has one
EditedAlwaysAddsIntent(f) ==
    [f EXCEPT !.intents = f.intents + 1,
              !.xmp = "pdfa2b",
              !.writtenBy = "normalizer"]

\* the catalog edits: /OutputIntents set only when absent, /Metadata always
Edited(f) ==
    [f EXCEPT !.intents = IF f.intents = 0 THEN 1 ELSE f.intents,
              !.xmp = "pdfa2b",
              !.writtenBy = "normalizer"]

\* pikepdf.open needs the file; pdf.save refuses to overwrite its input
PikepdfCanSucceed(fsx, src, dst) == fsx[src] # NoFile /\ src # dst

\* shutil.copy2 needs the source and raises SameFileError on src = dst
CopyCanSucceed(fsx, src, dst) == fsx[src] # NoFile /\ src # dst

\* every way a call convert_pdf_to_pdfa(src, dst, gs) can end: the try block
\* completes; or something in it raises, is caught, and copy2 succeeds; or
\* copy2 raises out of the except block
ConvertOutcomes(fsx, src, dst) ==
    {[fs |-> [fsx EXCEPT ![dst] = Edited(fsx[src])],
      res |-> "returned", route |-> "normal"] :
        x \in {y \in {1} : PikepdfCanSucceed(fsx, src, dst)}}
    \cup
    {[fs |-> [fsx EXCEPT ![dst] = fsx[src]],
      res |-> "returned", route |-> "fallback"] :
        x \in {y \in {1} : CopyCanSucceed(fsx, src, dst)}}
    \cup
    {[fs |-> fsx, res |-> "raised", route |-> "fallback"]}

(***************************************************************************)
(* main                                                                    *)
(***************************************************************************)
BookmarkModes == {"headings", "word", "none"}

MainParagraphs ==
    {[text |-> <<"a">>, level |-> 1, page |-> 1],
     [text |-> <<" ", "a", "\r">>, level |-> 2, page |-> 1],
     [text |-> <<"a">>, level |-> MaxOutlineLevel + 1, page |-> 1],
     [text |-> <<"\r">>, level |-> 1, page |-> 1]}

\* the if/elif/else on args.bookmarks
CreateBookmarks(mode) ==
    IF mode = "headings" THEN WD_CREATE_BOOKMARKS_FROM_HEADINGS
    ELSE IF mode = "word" THEN WD_CREATE_BOOKMARKS_FROM_WORD
    ELSE 0

\* paragraphs the host treats as headings
Headings(ps) ==
    {i \in 1..Len(ps) :
        ps[i].level \in 1..MaxOutlineLevel /\ Strip(ps[i].text) # <<>>}

\* bookmarks ExportAsFixedFormat writes for a CreateBookmarks code
ExportedBookmarks(code, ps, nWordBookmarks) ==
    IF code = WD_CREATE_BOOKMARKS_FROM_HEADINGS THEN Cardinality(Headings(ps))
    ELSE IF code = WD_CREATE_BOOKMARKS_FROM_WORD THEN nWordBookmarks
    ELSE 0

\* pdf_path from --intermediate-pdf
IntermediatePath(a) ==
    IF a.intermediate_pdf # "none"
    THEN a.intermediate_pdf
    ELSE WithStem(PDFA_PATH, "_temp")

\* what add_outlines_to_pdf writes: the input's pages in a fresh document
\* with the new outline tree
Outlined(f, its) ==
    Pdf(f.pages, Len(MergeAll(MergeStart, its, f.pages).nodes), 0, "none",
        "merger")

\* resolve_gs_path raises FileNotFoundError
GsMissing(a, onPath) == a.gs_path = "none" /\ ~onPath

Unlink(fsx, p) == [fsx EXCEPT ![p] = NoFile]

\* the end-of-run clean-up with the outlined file forgotten
CleanUpRenderedOnly(fsx, a, p, outl) ==
    IF a.intermediate_pdf = "none" THEN Unlink(fsx, p) ELSE fsx

\* the two unlink statements at the end of main
CleanUp(fsx, a, p, outl) ==
    LET one == IF a.intermediate_pdf = "none" /\ fsx[p] # NoFile
               THEN Unlink(fsx, p) ELSE fsx
    IN IF a.intermediate_pdf = "none" /\ outl # "none" /\ one[outl] # NoFile
       THEN Unlink(one, outl) ELSE one

(***************************************************************************)
(* Parts of the state a specification does not exercise                    *)
(***************************************************************************)
IdleMerge ==
    /\ outlines = <<>>
    /\ pageCount = 0
    /\ mi = 0
    /\ parents = (0 :> None)
    /\ nodes = <<>>

IdleHost ==
    /\ fn = "none"
    /\ hpc = "done"
    /\ pidx = 0
    /\ calls = <<>>
    /\ hostAcquired = FALSE
    /\ docOpened = FALSE
    /\ pending = FALSE
    /\ hres = "returned"

IdleDoc ==
    /\ paras = <<>>
    /\ items = <<>>

IdleCall ==
    /\ nIn = "none"
    /\ nOut = "none"
    /\ nBefore = NoFile
    /\ nres = "idle"
    /\ nroute = "none"
    /\ nruns = 0

IdleMain ==
    /\ pc = "none"
    /\ args = [intermediate_pdf |-> "none", bookmarks |-> "none",
               gs_path |-> "none"]
    /\ gsOnPath = FALSE
    /\ wordBookmarks = 0
    /\ pdf_path = "none"
    /\ outlined_pdf_path = "none"
    /\ pdf_for_pdfa = "none"
    /\ stagesRun = <<>>
    /\ rendered = NoFile
    /\ failedAt = "none"

(***************************************************************************)
(* SpecMerge: add_outlines_to_pdf on any outline list and page count       *)
(***************************************************************************)
InitMerge ==
    /\ outlines \in SeqsUpTo(OutlineItems, MaxItems)
    /\ pageCount \in 0..MaxPageCount
    /\ mi = 0
    /\ parents = MergeStart.parents
    /\ nodes = MergeStart.nodes
    /\ IdleHost /\ IdleDoc /\ IdleCall /\ IdleMain
    /\ fs = EmptyDisk

\* one iteration of `for title, level, page in outlines`
MergeItem ==
    /\ mi < Len(outlines)
    /\ LET st == MergeStep([parents |-> parents, nodes |-> nodes],
                           outlines[mi + 1], pageCount)
       IN /\ parents' = st.parents
          /\ nodes' = st.nodes
    /\ mi' = mi + 1
    /\ UNCHANGED <<outlines, pageCount>>
    /\ UNCHANGED <<hostVars, docVars, fileVars, mainVars>>

NextMerge == MergeItem

SpecMerge == InitMerge /\ [][NextMerge]_vars

(***************************************************************************)
(* SpecHost: export_docx_to_pdf and extract_outline_items, statement by    *)
(* statement; every call on the host may raise                             *)
(***************************************************************************)
InitHost ==
    /\ fn \in {"export", "extract"}
    /\ hpc = "dispatch"
    /\ paras \in SeqsUpTo(Paragraphs, MaxParas)
    /\ pidx = 0
    /\ items = <<>>
    /\ calls = <<>>
    /\ hostAcquired = FALSE
    /\ docOpened = FALSE
    /\ pending = FALSE
    /\ hres = "running"
    /\ IdleMerge /\ IdleCall /\ IdleMain
    /\ fs = EmptyDisk

hostStep == UNCHANGED <<fn, paras, mergeVars, fileVars, mainVars>>

\* word = win32com.client.Dispatch("Word.Application")
Dispatch ==
    /\ hpc = "dispatch"
    /\ calls' = Append(calls, "Dispatch")
    /\ \/ /\ hostAcquired' = TRUE
          /\ hpc' = "visible"
          /\ UNCHANGED <<pending, hres>>
       \/ /\ hpc' = "done"
          /\ hres' = "raised"
          /\ pending' = TRUE
          /\ UNCHANGED hostAcquired
    /\ UNCHANGED <<pidx, items, docOpened>>
    /\ hostStep

\* word.Visible = False, before the outer try is entered
SetVisible ==
    /\ hpc = "visible"
    /\ calls' = Append(calls, "Visible")
    /\ \/ /\ hpc' = "open"
          /\ UNCHANGED <<pending, hres>>
       \/ /\ hpc' = "done"
          /\ hres' = "raised"
          /\ pending' = TRUE
    /\ UNCHANGED <<pidx, items, hostAcquired, docOpened>>
    /\ hostStep

\* doc = word.Documents.Open(...), inside the outer try
OpenDocument ==
    /\ hpc = "open"
    /\ calls' = Append(calls, "Open")
    /\ \/ /\ docOpened' = TRUE
          /\ hpc' = "body"
          /\ UNCHANGED pending
       \/ /\ pending' = TRUE
          /\ hpc' = "quit"
          /\ UNCHANGED docOpened
    /\ UNCHANGED <<pidx, items, hostAcquired, hres>>
    /\ hostStep

\* doc.ExportAsFixedFormat(...), inside the inner try
ExportAsFixedFormat ==
    /\ hpc = "body"
    /\ fn = "export"
    /\ calls' = Append(calls, "ExportAsFixedFormat")
    /\ pending' \in BOOLEAN
    /\ hpc' = "close"
    /\ UNCHANGED <<pidx, items, hostAcquired, docOpened, hres>>
    /\ hostStep

\* one iteration of `for para in doc.Paragraphs`, inside the inner try
WalkParagraph ==
    /\ hpc = "body"
    /\ fn = "extract"
    /\ pidx < Len(paras)
    /\ \/ /\ items' = VisitParagraph(items, paras[pidx + 1])
          /\ pidx' = pidx + 1
          /\ UNCHANGED <<hpc, pending>>
       \/ /\ pending' = TRUE
          /\ hpc' = "close"
          /\ UNCHANGED <<items, pidx>>
    /\ UNCHANGED <<calls, hostAcquired, docOpened, hres>>
    /\ hostStep

\* the paragraph loop is exhausted
WalkDone ==
    /\ hpc = "body"
    /\ fn = "extract"
    /\ pidx = Len(paras)
    /\ hpc' = "close"
    /\ UNCHANGED <<pidx, items, calls, hostAcquired, docOpened, pending, hres>>
    /\ hostStep

\* finally: doc.Close(False)
CloseDocument ==
    /\ hpc = "close"
    /\ calls' = Append(calls, "Close")
    /\ \/ UNCHANGED pending
       \/ pending' = TRUE
    /\ hpc' = "quit"
    /\ UNCHANGED <<pidx, items, hostAcquired, docOpened, hres>>
    /\ hostStep

\* finally: word.Quit(); then `return items`, or the exception propagates
QuitHost ==
    /\ hpc = "quit"
    /\ calls' = Append(calls, "Quit")
    /\ \/ UNCHANGED pending
       \/ pending' = TRUE
    /\ hpc' = "done"
    /\ hres' = IF pending' THEN "raised" ELSE "returned"
    /\ UNCHANGED <<pidx, items, hostAcquired, docOpened>>
    /\ hostStep

NextHost ==
    \/ Dispatch
    \/ SetVisible
    \/ OpenDocument
    \/ ExportAsFixedFormat
    \/ WalkParagraph
    \/ WalkDone
    \/ CloseDocument
    \/ QuitHost

SpecHost == InitHost /\ [][NextHost]_vars

(***************************************************************************)
(* SpecNorm: convert_pdf_to_pdfa on any input file, then again on its own  *)
(* output                                                                  *)
(***************************************************************************)
InputFiles ==
    {Pdf(1, b, n, x, "other") :
        b \in {0, 1}, n \in 0..MaxIntents, x \in XmpValues}

InitNorm ==
    /\ nIn = "mid"
    /\ nOut \in {"out", "mid"}
    /\ \E f \in InputFiles \cup {NoFile} : fs = [EmptyDisk EXCEPT !["mid"] = f]
    /\ nBefore = NoFile
    /\ nres = "idle"
    /\ nroute = "none"
    /\ nruns = 0
    /\ IdleMerge /\ IdleHost /\ IdleDoc /\ IdleMain

\* convert_pdf_to_pdfa(nIn, nOut, gs_path)
Convert ==
    /\ nres = "idle"
    /\ \E o \in ConvertOutcomes(fs, nIn, nOut) :
          /\ fs' = o.fs
          /\ nres' = o.res
          /\ nroute' = o.route
    /\ nBefore' = fs[nIn]
    /\ nruns' = nruns + 1
    /\ UNCHANGED <<nIn, nOut>>
    /\ UNCHANGED <<mergeVars, hostVars, docVars, mainVars>>

\* the caller hands the output of one call to the next call
ConvertAgain ==
    /\ nres = "returned"
    /\ nruns < MaxRuns
    /\ nIn' = nOut
    /\ nOut' \in AllPaths
    /\ nres' = "idle"
    /\ UNCHANGED <<fs, nBefore, nroute, nruns>>
    /\ UNCHANGED <<mergeVars, hostVars, docVars, mainVars>>

NextNorm ==
    \/ Convert
    \/ ConvertAgain

SpecNorm == InitNorm /\ [][NextNorm]_vars

(***************************************************************************)
(* SpecMain: main, one step per stage                                      *)
(***************************************************************************)
InitMain ==
    /\ pc = "start"
    /\ args \in [intermediate_pdf : {"none", "mid", PDFA_PATH},
                 bookmarks : BookmarkModes,
                 gs_path : {"none", "gs"}]
    /\ gsOnPath \in BOOLEAN
    /\ wordBookmarks \in {0, 1}
    /\ paras \in SeqsUpTo(MainParagraphs, MaxParas)
    /\ items = <<>>
    /\ pdf_path = "none"
    /\ outlined_pdf_path = "none"
    /\ pdf_for_pdfa = "none"
    /\ stagesRun = <<>>
    /\ rendered = NoFile
    /\ failedAt = "none"
    /\ fs = EmptyDisk
    /\ IdleMerge /\ IdleHost /\ IdleCall

Fail(stage) ==
    /\ pc' = "failed"
    /\ failedAt' = stage

\* parse_args and the path computations before the first stage
Startup ==
    /\ pc = "start"
    /\ pdf_path' = IntermediatePath(args)
    /\ pc' = "export"
    /\ UNCHANGED <<args, gsOnPath, wordBookmarks, outlined_pdf_path,
                   pdf_for_pdfa, stagesRun, rendered, failedAt>>
    /\ UNCHANGED <<mergeVars, hostVars, docVars, fileVars>>

\* export_docx_to_pdf(docx_path, pdf_path, create_bookmarks)
RunExport ==
    /\ pc = "export"
    /\ stagesRun' = Append(stagesRun, "renderer")
    /\ \/ \E n \in 1..MaxPageCount, a1 \in BOOLEAN :
             LET f == Pdf(n,
                          ExportedBookmarks(CreateBookmarks(args.bookmarks),
                                            paras, wordBookmarks),
                          IF a1 THEN 1 ELSE 0,
                          IF a1 THEN "pdfa1" ELSE "none",
                          "renderer")
             IN /\ fs' = [fs EXCEPT ![pdf_path] = f]
                /\ rendered' = f
                /\ pc' = "extract"
                /\ UNCHANGED failedAt
       \/ /\ Fail("renderer")
          /\ UNCHANGED <<fs, rendered>>
    /\ UNCHANGED <<args, gsOnPath, wordBookmarks, pdf_path, outlined_pdf_path,
                   pdf_for_pdfa>>
    /\ UNCHANGED <<nIn, nOut, nBefore, nres, nroute, nruns>>
    /\ UNCHANGED <<mergeVars, hostVars, docVars>>

\* outline_items = extract_outline_items(docx_path)
RunExtract ==
    /\ pc = "extract"
    /\ stagesRun' = Append(stagesRun, "extractor")
    /\ \/ /\ items' = WalkAll(<<>>, paras)
          /\ pc' = "merge"
          /\ UNCHANGED failedAt
       \/ /\ Fail("extractor")
          /\ UNCHANGED items
    /\ UNCHANGED paras
    /\ UNCHANGED <<args, gsOnPath, wordBookmarks, pdf_path, outlined_pdf_path,
                   pdf_for_pdfa, rendered>>
    /\ UNCHANGED <<mergeVars, hostVars, fileVars>>

\* if outline_items: add_outlines_to_pdf(pdf_path, outlined_pdf_path, items)
RunMerge ==
    /\ pc = "merge"
    /\ items # <<>>
    /\ stagesRun' = Append(stagesRun, "merger")
    /\ outlined_pdf_path' = WithStem(pdf_path, "_outlines")
    /\ \/ /\ fs[pdf_path] # NoFile
          /\ LET st == MergeAll(MergeStart, items, fs[pdf_path].pages)
             IN /\ parents' = st.parents
                /\ nodes' = st.nodes
          /\ outlines' = items
          /\ pageCount' = fs[pdf_path].pages
          /\ mi' = Len(items)
          /\ fs' = [fs EXCEPT ![outlined_pdf_path'] =
                                  Outlined(fs[pdf_path], items)]
          /\ pdf_for_pdfa' = outlined_pdf_path'
          /\ pc' = "resolve_gs"
          /\ UNCHANGED failedAt
       \/ /\ Fail("merger")
          /\ UNCHANGED <<mergeVars, fs, pdf_for_pdfa>>
    /\ UNCHANGED <<args, gsOnPath, wordBookmarks, pdf_path, rendered>>
    /\ UNCHANGED <<nIn, nOut, nBefore, nres, nroute, nruns>>
    /\ UNCHANGED <<hostVars, docVars>>

\* else: pdf_for_pdfa = pdf_path
SkipMerge ==
    /\ pc = "merge"
    /\ items = <<>>
    /\ pdf_for_pdfa' = pdf_path
    /\ pc' = "resolve_gs"
    /\ UNCHANGED <<args, gsOnPath, wordBookmarks, pdf_path, outlined_pdf_path,
                   stagesRun, rendered, failedAt>>
    /\ UNCHANGED <<mergeVars, hostVars, docVars, fileVars>>

\* gs_path = resolve_gs_path(args.gs_path)
ResolveGs ==
    /\ pc = "resolve_gs"
    /\ IF GsMissing(args, gsOnPath)
       THEN Fail("resolve_gs")
       ELSE pc' = "normalize" /\ UNCHANGED failedAt
    /\ UNCHANGED <<args, gsOnPath, wordBookmarks, pdf_path, outlined_pdf_path,
                   pdf_for_pdfa, stagesRun, rendered>>
    /\ UNCHANGED <<mergeVars, hostVars, docVars, fileVars>>

\* convert_pdf_to_pdfa(pdf_for_pdfa, pdfa_path, gs_path)
RunNormalize ==
    /\ pc = "normalize"
    /\ stagesRun' = Append(stagesRun, "normalizer")
    /\ nIn' = pdf_for_pdfa
    /\ nOut' = PDFA_PATH
    /\ nBefore' = fs[pdf_for_pdfa]
    /\ nruns' = nruns + 1
    /\ \E o \in ConvertOutcomes(fs, pdf_for_pdfa, PDFA_PATH) :
          /\ fs' = o.fs
          /\ nres' = o.res
          /\ nroute' = o.route
          /\ IF o.res = "raised"
             THEN Fail("normalizer")
             ELSE pc' = "cleanup" /\ UNCHANGED failedAt
    /\ UNCHANGED <<args, gsOnPath, wordBookmarks, pdf_path, outlined_pdf_path,
                   pdf_for_pdfa, rendered>>
    /\ UNCHANGED <<mergeVars, hostVars, docVars>>

\* the two clean-up statements; main returns
Finish ==
    /\ pc = "cleanup"
    /\ fs' = CleanUp(fs, args, pdf_path, outlined_pdf_path)
    /\ pc' = "done"
    /\ UNCHANGED <<args, gsOnPath, wordBookmarks, pdf_path, outlined_pdf_path,
                   pdf_for_pdfa, stagesRun, rendered, failedAt>>
    /\ UNCHANGED <<nIn, nOut, nBefore, nres, nroute, nruns>>
    /\ UNCHANGED <<mergeVars, hostVars, docVars>>

NextMain ==
    \/ Startup
    \/ RunExport
    \/ RunExtract
    \/ RunMerge
    \/ SkipMerge
    \/ ResolveGs
    \/ RunNormalize
    \/ Finish

SpecMain == InitMain /\ [][NextMain]_vars

(***************************************************************************)
(* Properties of add_outlines_to_pdf                                       *)
(***************************************************************************)
SetMax(S) == CHOOSE x \in S : \A y \in S : y <= x

\* earlier bookmarks one level above bookmark i
Shallower(i) == {j \in 1..(i - 1) : nodes[j].level = nodes[i].level - 1}

\* a bookmark of level < lvl was emitted strictly between j and i
Superseded(j, i, lvl) == \E k \in (j + 1)..(i - 1) : nodes[k].level < lvl

\* C1 (as stated): every bookmark at level L > 1 is a child of the most
\* recently emitted level-(L-1) bookmark before it, or a root bookmark if no
\* level-(L-1) bookmark precedes it.
C1_AsStated ==
    \A i \in 1..Len(nodes) :
        nodes[i].level > 1 =>
            IF Shallower(i) # {}
            THEN nodes[i].parent = SetMax(Shallower(i))
            ELSE nodes[i].parent = None

\* C1 (amended): every bookmark at level L > 1 is a child of the most recently
\* emitted level-(L-1) bookmark before it when no bookmark of a level below
\* L-1 was emitted in between; otherwise (none precedes it, or the latest one
\* was invalidated by a shallower item) it is a root bookmark.
C1_ParentOrRoot ==
    \A i \in 1..Len(nodes) :
        nodes[i].level > 1 =>
            IF /\ Shallower(i) # {}
               /\ ~Superseded(SetMax(Shallower(i)), i, nodes[i].level - 1)
            THEN nodes[i].parent = SetMax(Shallower(i))
            ELSE nodes[i].parent = None

\* C1 witness: a bookmark at level L > 1 preceded by two level-(L-1)
\* bookmarks has been attached under the later of the two.
C1_Witness ==
    \E i \in 1..Len(nodes) :
        /\ nodes[i].level > 1
        /\ Cardinality(Shallower(i)) >= 2
        /\ nodes[i].parent = SetMax(Shallower(i))

\* C2 (as stated): for every page count, every emitted bookmark's page index
\* lies in [0, pageCount-1].
C2_AsStated ==
    \A i \in 1..Len(nodes) :
        nodes[i].page_index >= 0 /\ nodes[i].page_index <= pageCount - 1

\* C2 (amended): for every page count >= 1 every emitted bookmark's page
\* index lies in [0, pageCount-1] and a page number beyond the last page maps
\* to the last page; for a document without pages the index is 0.
C2_PageIndexInRange ==
    \A i \in 1..Len(nodes) :
        IF pageCount = 0
        THEN nodes[i].page_index = 0
        ELSE /\ nodes[i].page_index >= 0
             /\ nodes[i].page_index <= pageCount - 1
             /\ outlines[i].page > pageCount =>
                    nodes[i].page_index = pageCount - 1

\* C2 witness: a bookmark whose page number lies beyond the last page of a
\* non-empty document has been emitted on the last page.
C2_Witness ==
    \E i \in 1..Len(nodes) :
        /\ pageCount >= 1
        /\ outlines[i].page > pageCount
        /\ nodes[i].page_index = pageCount - 1

\* C3: after an item at level L has been processed the map records the node
\* just created at level L and holds no level deeper than L; hence every
\* recorded node, and every node a bookmark was attached under, has seen no
\* later item at its own or a shallower level.
C3_DeeperInvalidated ==
    /\ mi > 0 =>
          LET L == outlines[mi].level
          IN /\ L \in DOMAIN parents
             /\ parents[L] = Len(nodes)
             /\ Len(nodes) = mi
             /\ \A k \in DOMAIN parents : k <= L
    /\ \A k \in (DOMAIN parents) \ {0} :
          \A j \in (parents[k] + 1)..mi : outlines[j].level > k
    /\ \A i \in 1..Len(nodes) :
          nodes[i].parent # None =>
              \A j \in (nodes[i].parent + 1)..(i - 1) :
                  nodes[j].level > nodes[nodes[i].parent].level

\* C3 witness: a deeper item was recorded, then a shallower item arrived and
\* the deeper level is gone from the map.
C3_Witness ==
    /\ mi >= 2
    /\ outlines[mi - 1].level > outlines[mi].level
    /\ outlines[mi - 1].level \notin DOMAIN parents

(***************************************************************************)
(* Properties of the automation-host functions                             *)
(***************************************************************************)
Positions(name) == {i \in 1..Len(calls) : calls[i] = name}

\* C8 (as stated): once the host has been acquired, Quit has been called by
\* the time the call returns or raises, and once the document has been opened,
\* Close has been called before Quit.
C8_AsStated ==
    hres # "running" =>
        /\ hostAcquired => Positions("Quit") # {}
        /\ docOpened =>
              \E c \in Positions("Close") : \E q \in Positions("Quit") : c < q

\* the paragraphs that pass the Extractor's policy, in traversal order
Qualifies(para) ==
    /\ Strip(para.text) # <<>>
    /\ para.level \in 1..9
    /\ para.page > 0

AsItem(para) ==
    [title |-> Strip(para.text), level |-> para.level, page |-> para.page]

RECURSIVE ItemsOf(_)
ItemsOf(ps) ==
    IF ps = <<>> THEN <<>>
    ELSE IF Qualifies(Head(ps))
         THEN <<AsItem(Head(ps))>> \o ItemsOf(Tail(ps))
         ELSE ItemsOf(Tail(ps))

\* C9: extract_outline_items returns, in traversal order, exactly one
\* (trimmed title, level, page) item per paragraph with non-empty trimmed text,
\* outline depth in 1..9 and positive page, and none for any other paragraph;
\* no returned item has page 0.
C9_ExtractedItems ==
    /\ fn = "extract" =>
          items = ItemsOf(SubSeq(paras, 1, pidx))
    /\ (fn = "extract" /\ hres = "returned") =>
          /\ pidx = Len(paras)
          /\ items = ItemsOf(paras)
          /\ \A i \in 1..Len(items) : items[i].page > 0

\* C9 witness: the Extractor returned after skipping a page-0 paragraph and
\* keeping another paragraph.
C9_Witness ==
    /\ fn = "extract"
    /\ hres = "returned"
    /\ Len(items) >= 1
    /\ \E i \in 1..Len(paras) :
          /\ paras[i].page = 0
          /\ Strip(paras[i].text) # <<>>
          /\ paras[i].level \in 1..9

(***************************************************************************)
(* Properties of convert_pdf_to_pdfa                                       *)
(***************************************************************************)
\* C4 (as stated): a call of convert_pdf_to_pdfa never raises; whenever
\* something in the try block raised, the output path holds a copy of the
\* unmodified input.
C4_AsStated ==
    nres # "idle" =>
        /\ nres = "returned"
        /\ nroute = "fallback" => fs[nOut] = nBefore

HadIntents == nBefore # NoFile /\ nBefore.intents >= 1

\* C5 (as stated): a call on a PDF that already has output intents leaves
\* exactly those output intents in the result and the result's XMP declares
\* PDF/A part 2, conformance B.
C5_AsStated ==
    (nres = "returned" /\ HadIntents) =>
        /\ fs[nOut].intents = nBefore.intents
        /\ fs[nOut].xmp = "pdfa2b"

\* C5 (amended): a call on a PDF that already has output intents leaves
\* exactly those output intents in the result; the result's XMP is rewritten
\* to PDF/A part 2, conformance B whenever the call did not fall back to the
\* verbatim copy, and on the fallback the result is the input, so that an
\* already normalized input still declares part 2, conformance B.
C5_NoSecondIntent ==
    (nres = "returned" /\ HadIntents) =>
        /\ fs[nOut].intents = nBefore.intents
        /\ nroute = "normal" => fs[nOut].xmp = "pdfa2b"
        /\ nroute = "fallback" => fs[nOut] = nBefore
        /\ nBefore.xmp = "pdfa2b" => fs[nOut].xmp = "pdfa2b"

\* C5 witness: the second call, on the first call's normalized output, has
\* saved its result with the single output intent the first call attached.
C5_Witness ==
    /\ nruns = 2
    /\ nres = "returned"
    /\ nroute = "normal"
    /\ nBefore # NoFile
    /\ nBefore.writtenBy = "normalizer"
    /\ nBefore.intents = 1
    /\ fs[nOut].intents = 1
    /\ fs[nOut].xmp = "pdfa2b"

(***************************************************************************)
(* Properties of main                                                      *)
(***************************************************************************)
Ran(stage) == \E i \in 1..Len(stagesRun) : stagesRun[i] = stage

\* C6 (as stated): a run that fails because no interpreter is found fails
\* before the Renderer, the Extractor or the Merger has run and before any
\* intermediate file has been written.
C6_AsStated ==
    failedAt = "resolve_gs" =>
        /\ stagesRun = <<>>
        /\ \A p \in AllPaths : fs[p] = NoFile

\* C7 (as stated): at the end of a successful run, without --intermediate-pdf
\* neither intermediate file exists; with it, the rendered PDF is still at
\* that path.
C7_AsStated ==
    pc = "done" =>
        IF args.intermediate_pdf = "none"
        THEN /\ fs[pdf_path] = NoFile
             /\ fs[WithStem(pdf_path, "_outlines")] = NoFile
        ELSE fs[pdf_path] = rendered

\* C7 (amended): at the end of a successful run, without --intermediate-pdf
\* neither intermediate file exists; with it, a file is still at that path,
\* and it is the rendered PDF unless the path is also the output path (the
\* Normalizer has then written the final output over it).
C7_IntermediatesCleaned ==
    pc = "done" =>
        IF args.intermediate_pdf = "none"
        THEN /\ fs[pdf_path] = NoFile
             /\ fs[WithStem(pdf_path, "_outlines")] = NoFile
        ELSE /\ fs[pdf_path] # NoFile
             /\ pdf_path # PDFA_PATH => fs[pdf_path] = rendered

\* C7 witness: a run without --intermediate-pdf in which the Merger wrote the
\* outlined file has ended and the output is on disk.
C7_Witness ==
    /\ pc = "done"
    /\ args.intermediate_pdf = "none"
    /\ Ran("merger")
    /\ fs[PDFA_PATH] # NoFile

\* C10 (as stated): when the extracted outline is empty, the Merger never
\* runs, the Normalizer is given the unmodified rendered PDF, and the final
\* output has no bookmarks, whatever the --bookmarks mode.
C10_AsStated ==
    (pc = "done" /\ items = <<>>) =>
        /\ ~Ran("merger")
        /\ nIn = pdf_path
        /\ nBefore = rendered
        /\ fs[PDFA_PATH].bookmarks = 0
====
